---- MODULE Spec2Model ----
(***************************************************************************)
(* State-machine model of the status synchronisation logic of the          *)
(* evolution-assistant frontend: the two client views (ClientLanding,      *)
(* QRAssistantPage) and the client list of AdminPanel.                     *)
(*                                                                         *)
(* Every await of the source is one step: an asynchronous operation sits   *)
(* in a slot of `ops` between the request it issued and the response it    *)
(* handles.  Backend responses and push events are inputs, drawn from the  *)
(* small sets below.  `ev` is a history variable: the handler that ran     *)
(* last, its input, the request it issued and, when it ended an            *)
(* operation, the summary of that operation.                               *)
(***************************************************************************)
EXTENDS Integers, Sequences, FiniteSets, TLC

VARIABLES view, clientData, qrCode, loading, errorMessage, refreshing,
          retryCount, ops, eff, effDirty, clients, error, loadingStates,
          listOp, obs, ev,
          mut, debounce, successMessage, dismissTimers, formError,
          editingClient, showEditEmailForm, showModal, fetches

clientVars == <<clientData, qrCode, loading, errorMessage, refreshing,
                retryCount, ops, eff, effDirty, obs>>
mutVars == <<mut, debounce, successMessage, dismissTimers, formError,
             editingClient, showEditEmailForm>>
modalVars == <<showModal, fetches>>
adminVars == <<clients, error, loadingStates, listOp, mutVars, modalVars>>
vars == <<view, clientData, qrCode, loading, errorMessage, refreshing,
          retryCount, ops, eff, effDirty, clients, error, loadingStates,
          listOp, obs, ev, mut, debounce, successMessage, dismissTimers,
          formError, editingClient, showEditEmailForm, showModal, fetches>>

-----------------------------------------------------------------------------
(* Bounds and input domains *)

MaxOps == 1
Slots == 1..MaxOps

(* success notices surfaced and not yet timed out *)
MaxTimers == 2
(* chat and thread requests in flight *)
MaxFetches == 1
FetchSlots == 1..MaxFetches

maxRetries == 3
retries == 3

ClientLanding == "ClientLanding"
QRAssistantPage == "QRAssistantPage"
AdminPanel == "AdminPanel"
Views == {ClientLanding, QRAssistantPage, AdminPanel}

NoId == "none"
SlugId == "c1"
ClientIds == {"c1", "c2"}
NoPhone == "none"
Phones == {"p1"}
NoQr == "none"
QrPayloads == {"q1"}
NoStatus == "none"
Statuses == {"open", "connecting"}
HttpFailures == {0, 401, 403, 404}

(* Messages are sequences of fragments; null is the empty sequence. *)
NoMsg == <<>>
InstanceNotReadyMsg == <<"Instance", "c1", "does not exist">>
InstanceClosedMsg == <<"Instance", "c1", "is closed">>
Details == {InstanceNotReadyMsg, InstanceClosedMsg}

Includes(msg, fragment) == \E i \in DOMAIN msg : msg[i] = fragment

-----------------------------------------------------------------------------
(* Records *)

NoData == [set |-> FALSE, id |-> NoId, connected |-> FALSE,
           status |-> NoStatus, phone |-> NoPhone]

Resp(kind, http, id, connected, phone, status, payload, msg) ==
  [kind |-> kind, http |-> http, id |-> id, connected |-> connected,
   phone |-> phone, status |-> status, payload |-> payload, msg |-> msg]

NoResp == Resp("none", 0, NoId, FALSE, NoPhone, NoStatus, NoQr, NoMsg)

HttpFail(h) == Resp("fail", h, NoId, FALSE, NoPhone, NoStatus, NoQr, NoMsg)

LandingResponses ==
  {Resp("landing", 200, SlugId, FALSE, NoPhone, NoStatus, NoQr, NoMsg)}
  \cup {HttpFail(h) : h \in HttpFailures}

(* connected and connected_phone of the landing response.  The handlers   *)
(* read them from the local `client` only once the status response is     *)
(* there, so the model draws them at that step.                           *)
LandingClients ==
  {[connected |-> c, phone |-> p] : c \in BOOLEAN, p \in Phones \cup {NoPhone}}

StatusResponses ==
  {Resp("status", 200, NoId, FALSE, NoPhone, s, NoQr, NoMsg) : s \in Statuses}
  \cup {HttpFail(h) : h \in HttpFailures}

QrResponses ==
  {Resp("qr", 200, NoId, FALSE, NoPhone, NoStatus, q, NoMsg) : q \in QrPayloads}
  \cup {Resp("open", 200, NoId, FALSE, p, "open", NoQr, NoMsg) :
          p \in Phones \cup {NoPhone}}
  \cup {Resp("body", 200, NoId, FALSE, NoPhone, NoStatus, NoQr, m) :
          m \in {NoMsg, InstanceNotReadyMsg}}
  \cup {Resp("throw", 0, NoId, FALSE, NoPhone, NoStatus, NoQr, NoMsg)}
  \cup {Resp("throw", 500, NoId, FALSE, NoPhone, NoStatus, NoQr, m) :
          m \in Details}

PushEvents ==
  {Resp("push", 0, i, FALSE, p, s, q, NoMsg) :
     i \in ClientIds, p \in Phones \cup {NoPhone}, s \in Statuses,
     q \in QrPayloads \cup {NoQr}}

(* what POST /admin/clients/{id}/toggle may answer: the handlers tell   *)
(* a resolved request from a rejected one, nothing more                   *)
ToggleResponses ==
  {Resp("ok", 200, NoId, FALSE, NoPhone, NoStatus, NoQr, NoMsg), HttpFail(0)}

(* window.confirm about client `id`: `answer` is what the user chose *)
Confirm(id, answer) ==
  Resp("confirm", 0, id, answer, NoPhone, NoStatus, NoQr, NoMsg)

IdleOp == [pc |-> "idle", fs |-> FALSE, clos |-> FALSE, inst |-> NoId]

(* fetchClientData entered: the landing request is in flight. *)
NewFetch(closureConnected) ==
  [IdleOp EXCEPT !.pc = "landing", !.fs = TRUE, !.clos = closureConnected]

FreeSlots == {o \in Slots : ops[o].pc = "idle"}
NewSlot == CHOOSE o \in FreeSlots : \A p \in FreeSlots : o <= p

(* History.  `obs` follows one operation, chosen when it starts: the QR   *)
(* requests it has issued and whether it has changed clientData.  It      *)
(* stops following when the shared retry counter is moved back.           *)
NoObs == [o |-> 0, qrReqs |-> 0, applied |-> FALSE]
ObsStart(b, o, track, n) ==
  IF b.o = 0 /\ track THEN [o |-> o, qrReqs |-> n, applied |-> FALSE] ELSE b
ObsQr(b, o) == IF b.o = o THEN [b EXCEPT !.qrReqs = @ + 1] ELSE b
ObsApplied(b, o, changed) ==
  IF b.o = o THEN [b EXCEPT !.applied = (@ \/ changed)] ELSE b
ObsEnd(b, o) == IF b.o = o THEN NoObs ELSE b
ObsReset(b) == IF retryCount = 0 THEN b ELSE NoObs

(* an ignored push event is recorded by its client id alone *)
Ignored(e) == Resp("push", 0, e.id, FALSE, NoPhone, NoStatus, NoQr, NoMsg)

EvStep(name, r, issued) ==
  [name |-> name, resp |-> r, issued |-> issued, done |-> FALSE,
   failed |-> FALSE, observed |-> FALSE, qrReqs |-> 0, applied |-> FALSE]

EvDone(name, r, failed, b, o) ==
  [name |-> name, resp |-> r, issued |-> "none", done |-> TRUE,
   failed |-> failed, observed |-> (b.o = o),
   qrReqs |-> IF b.o = o THEN b.qrReqs ELSE 0,
   applied |-> IF b.o = o THEN b.applied ELSE FALSE]

-----------------------------------------------------------------------------
(* Pure helpers of the client views *)

CL_NotFoundMsg == <<"Cliente no encontrado. Verifica que el enlace sea correcto o contacta a soporte.">>
CL_UnauthorizedMsg == <<"Acceso no autorizado. Contacta al administrador.">>
CL_ConnectMsg == <<"No se pudo conectar con el servidor. Por favor intenta nuevamente.">>
CL_QrLoadMsg == <<"No se pudo cargar el codigo QR. Intenta de nuevo.">>
CL_QrConnectMsg == <<"Error al conectar con el servidor para obtener el QR">>

QRA_NotFoundMsg == <<"Cliente no encontrado. Verifica que el enlace sea correcto o contacta al administrador (contacto@tiks.cl).">>
QRA_AuthMsg == <<"Error de autenticacion con el servidor de WhatsApp. Contacta al administrador.">>
QRA_StatusMsg == <<"Error al verificar el estado.">>
QRA_QrLoadMsg == <<"No se pudo cargar el codigo QR.">>
QRA_QrConnectMsg == <<"Error al conectar con el servidor.">>

(* catch (err) of ClientLanding.fetchClientData *)
CL_ErrorFor(http) ==
  IF http = 404 THEN CL_NotFoundMsg
  ELSE IF http = 401 THEN CL_UnauthorizedMsg
  ELSE CL_ConnectMsg

(* catch (error) of QRAssistantPage.fetchClientData *)
QRA_ErrorFor(http) ==
  IF http = 404 THEN QRA_NotFoundMsg
  ELSE IF http = 403 THEN QRA_AuthMsg
  ELSE QRA_StatusMsg

Or(msg, fallback) == IF msg # NoMsg THEN msg ELSE fallback

ShouldRetryMut(msg, count) ==
  Includes(msg, "Instance") /\ Includes(msg, "does not exist")
  /\ count <= maxRetries

ShouldRetryLoose(msg, count) ==
  Includes(msg, "Instance") /\ count < maxRetries

(* the retry condition of both QR catch blocks *)
ShouldRetry(msg, count) ==
  Includes(msg, "Instance") /\ Includes(msg, "does not exist")
  /\ count < maxRetries

PushMergeMut(prev, e) ==
  [prev EXCEPT !.status = e.status,
               !.connected = (e.status = "open"),
               !.phone = e.phone]

(* the updater passed to setClientData by ClientLanding's socket.onmessage *)
PushMerge(prev, e) ==
  [prev EXCEPT !.status = e.status,
               !.connected = (e.status = "open"),
               !.phone = IF e.phone # NoPhone THEN e.phone ELSE prev.phone]

PushMatchesMut(e, closureId) == e.id = e.id

(* data.clientId === clientData?.client?.id, on the clientData the effect saw *)
PushMatches(e, closureId) == e.id = closureId

AfterDisconnectMut(r) == "finally"

(* try / catch of both disconnect handlers: fetchClientData is awaited   *)
(* when the toggle request did not throw                                  *)
AfterDisconnect(r) == IF r.kind = "ok" THEN "fetchClientData" ELSE "finally"

(* the object built from the landing and the status response *)
NewClientData(client, status) ==
  [set |-> TRUE, id |-> SlugId, connected |-> client.connected,
   status |-> status, phone |-> client.phone]

-----------------------------------------------------------------------------
(* ClientLanding *)

(* finally of fetchClientData (and of every caller awaiting it) *)
CL_Finish(o) ==
  /\ loading' = FALSE
  /\ refreshing' = FALSE
  /\ ops' = [ops EXCEPT ![o] = IdleOp]

(* fetchClientData up to its first await: lines 40-49 *)
CL_Enter ==
  /\ errorMessage' = NoMsg
  /\ loading' = TRUE

CL_handleRefresh(track) ==
  /\ view = ClientLanding
  /\ ~loading /\ ~refreshing
  /\ FreeSlots # {}
  /\ refreshing' = TRUE
  /\ retryCount' = 0
  /\ CL_Enter
  /\ ops' = [ops EXCEPT ![NewSlot] = NewFetch(FALSE)]
  /\ obs' = ObsStart(ObsReset(obs), NewSlot, track, 0)
  /\ ev' = EvStep("handleRefresh", NoResp, "landing")
  /\ UNCHANGED <<view, clientData, qrCode, eff, effDirty, adminVars>>

(* the effect of lines 187-243 run again after clientData?.client?.id changed *)
CL_useEffect(track) ==
  /\ view = ClientLanding
  /\ effDirty
  /\ FreeSlots # {}
  /\ eff' = [id |-> clientData.id, connected |-> FALSE]
  /\ effDirty' = FALSE
  /\ CL_Enter
  /\ ops' = [ops EXCEPT ![NewSlot] = NewFetch(FALSE)]
  /\ obs' = ObsStart(obs, NewSlot, track, 0)
  /\ ev' = EvStep("useEffect", NoResp, "landing")
  /\ UNCHANGED <<view, clientData, qrCode, refreshing, retryCount, adminVars>>

CL_CatchMut(name, o, r) ==
  /\ clientData' = NoData
  /\ qrCode' = NoQr
  /\ errorMessage' = CL_ErrorFor(r.http)
  /\ CL_Finish(o)
  /\ obs' = ObsEnd(obs, o)
  /\ ev' = EvDone(name, r, TRUE, obs, o)
  /\ UNCHANGED <<view, retryCount, eff, effDirty, adminVars>>

(* catch (err) and finally of fetchClientData *)
CL_Catch(name, o, r) ==
  /\ qrCode' = NoQr
  /\ errorMessage' = CL_ErrorFor(r.http)
  /\ CL_Finish(o)
  /\ obs' = ObsEnd(obs, o)
  /\ ev' = EvDone(name, r, TRUE, obs, o)
  /\ UNCHANGED <<view, clientData, retryCount, eff, effDirty, adminVars>>

CL_landingResponse(o, r) ==
  /\ view = ClientLanding
  /\ ops[o].pc = "landing"
  /\ r \in LandingResponses
  /\ IF r.kind = "landing"
     THEN /\ ops' = [ops EXCEPT ![o].pc = "status"]
          /\ ev' = EvStep("landingResponse", r, "status")
          /\ UNCHANGED <<view, clientData, qrCode, loading, errorMessage,
                         refreshing, retryCount, eff, effDirty, obs,
                         adminVars>>
     ELSE CL_Catch("landingResponse", o, r)

CL_statusResponse(o, client, r) ==
  /\ view = ClientLanding
  /\ ops[o].pc = "status"
  /\ client \in LandingClients
  /\ r \in StatusResponses
  /\ IF r.kind = "status"
     THEN LET new == NewClientData(client, r.status)
              b == ObsApplied(obs, o, new # clientData)
          IN /\ clientData' = new
             /\ effDirty' = (new.id # eff.id)
             /\ IF r.status # "open"
                THEN /\ ops' = [ops EXCEPT ![o] =
                                  [IdleOp EXCEPT !.pc = "qr", !.fs = TRUE,
                                                 !.inst = new.id]]
                     /\ obs' = ObsQr(b, o)
                     /\ ev' = EvStep("statusResponse", r, "qr")
                     /\ UNCHANGED <<qrCode, loading, errorMessage, refreshing>>
                ELSE /\ qrCode' = NoQr
                     /\ errorMessage' = NoMsg
                     /\ CL_Finish(o)
                     /\ obs' = ObsEnd(b, o)
                     /\ ev' = EvDone("statusResponse", r, FALSE, b, o)
             /\ UNCHANGED <<view, retryCount, eff, adminVars>>
     ELSE CL_Catch("statusResponse", o, r)

CL_qrResponse(o, r) ==
  /\ view = ClientLanding
  /\ ops[o].pc = "qr"
  /\ r \in QrResponses
  /\ UNCHANGED <<view, eff, effDirty, adminVars>>
  /\ CASE r.kind = "qr" ->
            /\ qrCode' = r.payload
            /\ errorMessage' = NoMsg
            /\ retryCount' = 0
            /\ CL_Finish(o)
            /\ obs' = ObsReset(ObsEnd(obs, o))
            /\ ev' = EvDone("qrResponse", r, FALSE, obs, o)
            /\ UNCHANGED clientData
       [] r.kind = "open" ->
            /\ clientData' = [clientData EXCEPT !.connected = TRUE,
                                                !.phone = r.phone,
                                                !.status = "open"]
            /\ qrCode' = NoQr
            /\ errorMessage' = NoMsg
            /\ CL_Finish(o)
            /\ obs' = ObsEnd(obs, o)
            /\ ev' = EvDone("qrResponse", r, FALSE, obs, o)
            /\ UNCHANGED retryCount
       [] r.kind = "body" ->
            /\ qrCode' = NoQr
            /\ errorMessage' = Or(r.msg, CL_QrLoadMsg)
            /\ CL_Finish(o)
            /\ obs' = ObsEnd(obs, o)
            /\ ev' = EvDone("qrResponse", r, TRUE, obs, o)
            /\ UNCHANGED <<clientData, retryCount>>
       [] r.kind = "throw" ->
            LET qrErrorMsg == Or(r.msg, CL_QrConnectMsg)
            IN /\ qrCode' = NoQr
               /\ errorMessage' = qrErrorMsg
               /\ UNCHANGED clientData
               /\ IF ShouldRetry(qrErrorMsg, retryCount)
                  THEN /\ retryCount' = retryCount + 1
                       /\ ops' = [ops EXCEPT ![o].pc = "delay"]
                       /\ ev' = EvStep("qrResponse", r, "none")
                       /\ UNCHANGED <<loading, refreshing, obs>>
                  ELSE /\ CL_Finish(o)
                       /\ obs' = ObsEnd(obs, o)
                       /\ ev' = EvDone("qrResponse", r, TRUE, obs, o)
                       /\ UNCHANGED retryCount

(* the 2000 ms timeout of line 117 elapsed: await fetchClientData(fetchQr) *)
CL_retryDelay(o) ==
  /\ view = ClientLanding
  /\ ops[o].pc = "delay"
  /\ CL_Enter
  /\ ops' = [ops EXCEPT ![o] = NewFetch(FALSE)]
  /\ ev' = EvStep("retryDelay", NoResp, "landing")
  /\ UNCHANGED <<view, clientData, qrCode, refreshing, retryCount, eff,
                 effDirty, obs, adminVars>>

(* handleDisconnectWhatsApp up to its await: lines 153-176.  The button  *)
(* of line 382 is rendered for a connected client and disabled while     *)
(* refreshing or without a client id; a click is handled once the        *)
(* effects of the last render have run.                                   *)
CL_handleDisconnectWhatsApp(answer) ==
  /\ view = ClientLanding
  /\ ~loading /\ ~refreshing
  /\ clientData.connected \/ clientData.status = "open"
  /\ clientData.id # NoId
  /\ ~effDirty
  /\ FreeSlots # {}
  /\ IF answer
     THEN /\ refreshing' = TRUE
          /\ ops' = [ops EXCEPT ![NewSlot] =
                       [IdleOp EXCEPT !.pc = "disconnect",
                                      !.inst = clientData.id]]
          /\ ev' = EvStep("handleDisconnect", Confirm(clientData.id, TRUE),
                          "disconnect")
     ELSE (* declined: the handler returns at once, nothing is recorded *)
          UNCHANGED <<refreshing, ops, ev>>
  /\ UNCHANGED <<view, clientData, qrCode, loading, errorMessage, retryCount,
                 eff, effDirty, obs, adminVars>>

(* lines 177-184: the toggle request answered *)
CL_disconnectResponse(o, r) ==
  /\ view = ClientLanding
  /\ ops[o].pc = "disconnect"
  /\ r \in ToggleResponses
  /\ IF AfterDisconnect(r) = "fetchClientData"
     THEN /\ CL_Enter
          /\ ops' = [ops EXCEPT ![o] = NewFetch(FALSE)]
          /\ ev' = EvStep("disconnectResponse", r, "landing")
          /\ UNCHANGED refreshing
     ELSE /\ refreshing' = FALSE
          /\ ops' = [ops EXCEPT ![o] = IdleOp]
          /\ ev' = EvDone("disconnectResponse", r, TRUE, obs, o)
          /\ UNCHANGED <<loading, errorMessage>>
  /\ UNCHANGED <<view, clientData, qrCode, retryCount, eff, effDirty, obs,
                 adminVars>>

CL_onmessage(e) ==
  /\ view = ClientLanding
  /\ e \in PushEvents
  /\ UNCHANGED <<view, loading, refreshing, retryCount, ops, eff, effDirty,
                 obs, adminVars>>
  /\ IF PushMatches(e, eff.id)
     THEN /\ IF e.payload # NoQr
             THEN qrCode' = e.payload /\ errorMessage' = NoMsg
             ELSE UNCHANGED <<qrCode, errorMessage>>
          /\ clientData' = PushMerge(clientData, e)
          /\ ev' = EvStep("onmessage", e, "none")
     ELSE /\ ev' = EvStep("onmessage", Ignored(e), "none")
          /\ UNCHANGED <<clientData, qrCode, errorMessage>>

-----------------------------------------------------------------------------
(* QRAssistantPage *)

(* a changed clientData object or errorMessage gives new fetchQRCode and   *)
(* fetchClientData callbacks (lines 213, 271), the dependencies of the     *)
(* effect of line 344                                                      *)
QRA_Deps(dataSet, newMsg) == effDirty \/ dataSet \/ newMsg # errorMessage

(* finally of fetchQRCode, and of fetchClientData when it awaited it *)
QRA_Finish(o) ==
  /\ refreshing' = FALSE
  /\ loading' = IF ops[o].fs THEN FALSE ELSE loading
  /\ ops' = [ops EXCEPT ![o] = IdleOp]

(* fetchClientData up to its first await: lines 216-222 *)
QRA_Enter ==
  /\ refreshing' = TRUE
  /\ loading' = TRUE

QRA_handleRefresh(track) ==
  /\ view = QRAssistantPage
  /\ ~loading /\ ~refreshing
  /\ \/ errorMessage # NoMsg /\ ~clientData.set
     \/ ~(errorMessage # NoMsg /\ ~clientData.set) /\ ~clientData.connected
  /\ FreeSlots # {}
  /\ retryCount' = 0
  /\ QRA_Enter
  /\ ops' = [ops EXCEPT ![NewSlot] = NewFetch(clientData.connected)]
  /\ obs' = ObsStart(ObsReset(obs), NewSlot, track, 0)
  /\ ev' = EvStep("handleRefresh", NoResp, "landing")
  /\ UNCHANGED <<view, clientData, qrCode, errorMessage, eff, effDirty,
                 adminVars>>

(* the effect of lines 313-344 run again: intervals cleared and set, loadData *)
QRA_useEffect(track) ==
  /\ view = QRAssistantPage
  /\ effDirty
  /\ FreeSlots # {}
  /\ eff' = [id |-> clientData.id, connected |-> clientData.connected]
  /\ effDirty' = FALSE
  /\ QRA_Enter
  /\ ops' = [ops EXCEPT ![NewSlot] = NewFetch(clientData.connected)]
  /\ obs' = ObsStart(obs, NewSlot, track, 0)
  /\ ev' = EvStep("useEffect", NoResp, "landing")
  /\ UNCHANGED <<view, clientData, qrCode, errorMessage, retryCount,
                 adminVars>>

(* statusTimerRef interval, 30000 ms *)
QRA_statusTimer(track) ==
  /\ view = QRAssistantPage
  /\ FreeSlots # {}
  /\ QRA_Enter
  /\ ops' = [ops EXCEPT ![NewSlot] = NewFetch(eff.connected)]
  /\ obs' = ObsStart(obs, NewSlot, track, 0)
  /\ ev' = EvStep("statusTimer", NoResp, "landing")
  /\ UNCHANGED <<view, clientData, qrCode, errorMessage, retryCount, eff,
                 effDirty, adminVars>>

(* qrTimerRef interval, 25000 ms: fetchQRCode(clientData?.client?.id) *)
QRA_qrTimer(track) ==
  /\ view = QRAssistantPage
  /\ ~eff.connected
  /\ FreeSlots # {}
  /\ refreshing' = TRUE
  /\ ops' = [ops EXCEPT ![NewSlot] =
               [IdleOp EXCEPT !.pc = "qr", !.inst = eff.id]]
  /\ obs' = ObsStart(obs, NewSlot, track, 1)
  /\ ev' = EvStep("qrTimer", NoResp, "qr")
  /\ UNCHANGED <<view, clientData, qrCode, loading, errorMessage, retryCount,
                 eff, effDirty, adminVars>>

(* catch (error) and finally of fetchClientData *)
QRA_Catch(name, o, r) ==
  /\ qrCode' = NoQr
  /\ errorMessage' = QRA_ErrorFor(r.http)
  /\ effDirty' = QRA_Deps(FALSE, QRA_ErrorFor(r.http))
  /\ QRA_Finish(o)
  /\ obs' = ObsEnd(obs, o)
  /\ ev' = EvDone(name, r, TRUE, obs, o)
  /\ UNCHANGED <<view, clientData, retryCount, eff, adminVars>>

QRA_landingResponse(o, r) ==
  /\ view = QRAssistantPage
  /\ ops[o].pc = "landing"
  /\ r \in LandingResponses
  /\ IF r.kind = "landing"
     THEN /\ ops' = [ops EXCEPT ![o].pc = "status"]
          /\ ev' = EvStep("landingResponse", r, "status")
          /\ UNCHANGED <<view, clientData, qrCode, loading, errorMessage,
                         refreshing, retryCount, eff, effDirty, obs,
                         adminVars>>
     ELSE QRA_Catch("landingResponse", o, r)

QRA_statusResponse(o, client, r) ==
  /\ view = QRAssistantPage
  /\ ops[o].pc = "status"
  /\ client \in LandingClients
  /\ r \in StatusResponses
  /\ IF r.kind = "status"
     THEN LET new == NewClientData(client, r.status)
              b == ObsApplied(obs, o, new # clientData)
          IN /\ clientData' = new
             /\ errorMessage' = NoMsg
             /\ effDirty' = TRUE
             /\ UNCHANGED <<view, retryCount, eff, adminVars>>
             /\ IF r.status # "open" /\ ~ops[o].clos
                THEN (* fetchQRCode(client.id) issues its request *)
                     /\ ops' = [ops EXCEPT ![o] =
                                  [IdleOp EXCEPT !.pc = "qr", !.fs = TRUE,
                                                 !.inst = new.id]]
                     /\ obs' = ObsQr(b, o)
                     /\ ev' = EvStep("statusResponse", r, "qr")
                     /\ UNCHANGED <<qrCode, loading, refreshing>>
                ELSE (* status open, or fetchQRCode returned at line 173 *)
                     /\ qrCode' = NoQr
                     /\ QRA_Finish(o)
                     /\ obs' = ObsEnd(b, o)
                     /\ ev' = EvDone("statusResponse", r, FALSE, b, o)
     ELSE QRA_Catch("statusResponse", o, r)

QRA_qrResponse(o, r) ==
  /\ view = QRAssistantPage
  /\ ops[o].pc = "qr"
  /\ r \in QrResponses
  /\ UNCHANGED <<view, clientData, eff, adminVars>>
  /\ CASE r.kind = "qr" ->
            /\ qrCode' = r.payload
            /\ errorMessage' = NoMsg
            /\ effDirty' = QRA_Deps(FALSE, NoMsg)
            /\ retryCount' = 0
            /\ QRA_Finish(o)
            /\ obs' = ObsReset(ObsEnd(obs, o))
            /\ ev' = EvDone("qrResponse", r, FALSE, obs, o)
       [] r.kind \in {"open", "body"} ->
            /\ qrCode' = NoQr
            /\ errorMessage' = Or(r.msg, QRA_QrLoadMsg)
            /\ effDirty' = QRA_Deps(FALSE, Or(r.msg, QRA_QrLoadMsg))
            /\ QRA_Finish(o)
            /\ obs' = ObsEnd(obs, o)
            /\ ev' = EvDone("qrResponse", r, TRUE, obs, o)
            /\ UNCHANGED retryCount
       [] r.kind = "throw" ->
            LET errorMsg == Or(r.msg, QRA_QrConnectMsg)
            IN /\ qrCode' = NoQr
               /\ errorMessage' = errorMsg
               /\ effDirty' = QRA_Deps(FALSE, errorMsg)
               /\ IF ShouldRetry(errorMsg, retryCount)
                  THEN /\ retryCount' = retryCount + 1
                       /\ ops' = [ops EXCEPT ![o].pc = "delay"]
                       /\ ev' = EvStep("qrResponse", r, "none")
                       /\ UNCHANGED <<loading, refreshing, obs>>
                  ELSE /\ QRA_Finish(o)
                       /\ obs' = ObsEnd(obs, o)
                       /\ ev' = EvDone("qrResponse", r, TRUE, obs, o)
                       /\ UNCHANGED retryCount

(* the 2000 ms timeout of line 205 elapsed: await fetchQRCode(instance_id) *)
QRA_retryDelay(o) ==
  /\ view = QRAssistantPage
  /\ ops[o].pc = "delay"
  /\ refreshing' = TRUE
  /\ ops' = [ops EXCEPT ![o].pc = "qr"]
  /\ obs' = ObsQr(obs, o)
  /\ ev' = EvStep("retryDelay", NoResp, "qr")
  /\ UNCHANGED <<view, clientData, qrCode, loading, errorMessage, retryCount,
                 eff, effDirty, adminVars>>

(* handleDisconnect up to its await: lines 273-295.  The button of line  *)
(* 459 is rendered while clientData.whatsapp.connected; the               *)
(* fetchClientData it will call is the one of this render.                *)
QRA_handleDisconnect(answer) ==
  /\ view = QRAssistantPage
  /\ ~loading /\ ~refreshing
  /\ ~(errorMessage # NoMsg /\ ~clientData.set)
  /\ clientData.connected
  /\ clientData.id # NoId
  /\ ~effDirty
  /\ FreeSlots # {}
  /\ IF answer
     THEN /\ refreshing' = TRUE
          /\ ops' = [ops EXCEPT ![NewSlot] =
                       [IdleOp EXCEPT !.pc = "disconnect",
                                      !.clos = clientData.connected,
                                      !.inst = clientData.id]]
          /\ ev' = EvStep("handleDisconnect", Confirm(clientData.id, TRUE),
                          "disconnect")
     ELSE (* declined: the handler returns at once, nothing is recorded *)
          UNCHANGED <<refreshing, ops, ev>>
  /\ UNCHANGED <<view, clientData, qrCode, loading, errorMessage, retryCount,
                 eff, effDirty, obs, adminVars>>

(* lines 296-304: the toggle request answered *)
QRA_disconnectResponse(o, r) ==
  /\ view = QRAssistantPage
  /\ ops[o].pc = "disconnect"
  /\ r \in ToggleResponses
  /\ IF AfterDisconnect(r) = "fetchClientData"
     THEN /\ QRA_Enter
          /\ ops' = [ops EXCEPT ![o] = NewFetch(ops[o].clos)]
          /\ ev' = EvStep("disconnectResponse", r, "landing")
     ELSE /\ refreshing' = FALSE
          /\ ops' = [ops EXCEPT ![o] = IdleOp]
          /\ ev' = EvDone("disconnectResponse", r, TRUE, obs, o)
          /\ UNCHANGED loading
  /\ UNCHANGED <<view, clientData, qrCode, errorMessage, retryCount, eff,
                 effDirty, obs, adminVars>>

-----------------------------------------------------------------------------
(* Unmounting a client view *)

(* The view that was mounted, once its cleanup functions have run.  The   *)
(* state setters of an unmounted component do nothing; its pending        *)
(* promises and timeouts go on, and so do its refs.                       *)
Unmounted(v) == v \o " (unmounted)"

(* cleanup of the effect of lines 187-243: socket.close() *)
CL_unmount ==
  /\ view = ClientLanding
  /\ view' = Unmounted(ClientLanding)
  /\ ev' = EvStep("unmount", NoResp, "none")
  /\ UNCHANGED <<clientVars, adminVars>>

(* cleanup of the effect of lines 313-344: both intervals cleared *)
QRA_unmount ==
  /\ view = QRAssistantPage
  /\ view' = Unmounted(QRAssistantPage)
  /\ ev' = EvStep("unmount", NoResp, "none")
  /\ UNCHANGED <<clientVars, adminVars>>

(* what no step of an unmounted view changes *)
LateFrame ==
  UNCHANGED <<view, clientData, qrCode, loading, errorMessage, refreshing,
              eff, effDirty, obs, adminVars>>

(* fetchClientData of ClientLanding going on after the unmount *)
CL_lateLandingResponse(o, r) ==
  /\ view = Unmounted(ClientLanding)
  /\ ops[o].pc = "landing"
  /\ r \in LandingResponses
  /\ IF r.kind = "landing"
     THEN /\ ops' = [ops EXCEPT ![o].pc = "status"]
          /\ ev' = EvStep("landingResponse", r, "status")
     ELSE /\ ops' = [ops EXCEPT ![o] = IdleOp]
          /\ ev' = EvDone("landingResponse", r, TRUE, obs, o)
  /\ UNCHANGED retryCount
  /\ LateFrame

CL_lateStatusResponse(o, r) ==
  /\ view = Unmounted(ClientLanding)
  /\ ops[o].pc = "status"
  /\ r \in StatusResponses
  /\ IF r.kind = "status" /\ r.status # "open"
     THEN /\ ops' = [ops EXCEPT ![o] =
                       [IdleOp EXCEPT !.pc = "qr", !.fs = TRUE,
                                      !.inst = SlugId]]
          /\ ev' = EvStep("statusResponse", r, "qr")
     ELSE /\ ops' = [ops EXCEPT ![o] = IdleOp]
          /\ ev' = EvDone("statusResponse", r, r.kind # "status", obs, o)
  /\ UNCHANGED retryCount
  /\ LateFrame

CL_lateQrResponse(o, r) ==
  /\ view = Unmounted(ClientLanding)
  /\ ops[o].pc = "qr"
  /\ r \in QrResponses
  /\ IF r.kind = "throw" /\ ShouldRetry(Or(r.msg, CL_QrConnectMsg), retryCount)
     THEN /\ retryCount' = retryCount + 1
          /\ ops' = [ops EXCEPT ![o].pc = "delay"]
          /\ ev' = EvStep("qrResponse", r, "none")
     ELSE /\ retryCount' = IF r.kind = "qr" THEN 0 ELSE retryCount
          /\ ops' = [ops EXCEPT ![o] = IdleOp]
          /\ ev' = EvDone("qrResponse", r, r.kind \in {"body", "throw"},
                          obs, o)
  /\ LateFrame

(* the 2000 ms timeout of line 117, which no cleanup clears *)
CL_lateRetryDelay(o) ==
  /\ view = Unmounted(ClientLanding)
  /\ ops[o].pc = "delay"
  /\ ops' = [ops EXCEPT ![o] = NewFetch(FALSE)]
  /\ ev' = EvStep("retryDelay", NoResp, "landing")
  /\ UNCHANGED retryCount
  /\ LateFrame

(* fetchClientData and fetchQRCode of QRAssistantPage after the unmount *)
QRA_lateLandingResponse(o, r) ==
  /\ view = Unmounted(QRAssistantPage)
  /\ ops[o].pc = "landing"
  /\ r \in LandingResponses
  /\ IF r.kind = "landing"
     THEN /\ ops' = [ops EXCEPT ![o].pc = "status"]
          /\ ev' = EvStep("landingResponse", r, "status")
     ELSE /\ ops' = [ops EXCEPT ![o] = IdleOp]
          /\ ev' = EvDone("landingResponse", r, TRUE, obs, o)
  /\ UNCHANGED retryCount
  /\ LateFrame

QRA_lateStatusResponse(o, r) ==
  /\ view = Unmounted(QRAssistantPage)
  /\ ops[o].pc = "status"
  /\ r \in StatusResponses
  /\ IF r.kind = "status" /\ r.status # "open" /\ ~ops[o].clos
     THEN /\ ops' = [ops EXCEPT ![o] =
                       [IdleOp EXCEPT !.pc = "qr", !.fs = TRUE,
                                      !.inst = SlugId]]
          /\ ev' = EvStep("statusResponse", r, "qr")
     ELSE /\ ops' = [ops EXCEPT ![o] = IdleOp]
          /\ ev' = EvDone("statusResponse", r, r.kind # "status", obs, o)
  /\ UNCHANGED retryCount
  /\ LateFrame

QRA_lateQrResponse(o, r) ==
  /\ view = Unmounted(QRAssistantPage)
  /\ ops[o].pc = "qr"
  /\ r \in QrResponses
  /\ IF r.kind = "throw" /\ ShouldRetry(Or(r.msg, QRA_QrConnectMsg), retryCount)
     THEN /\ retryCount' = retryCount + 1
          /\ ops' = [ops EXCEPT ![o].pc = "delay"]
          /\ ev' = EvStep("qrResponse", r, "none")
     ELSE /\ retryCount' = IF r.kind = "qr" THEN 0 ELSE retryCount
          /\ ops' = [ops EXCEPT ![o] = IdleOp]
          /\ ev' = EvDone("qrResponse", r, r.kind # "qr", obs, o)
  /\ LateFrame

(* the 2000 ms timeout of line 205, which no cleanup clears *)
QRA_lateRetryDelay(o) ==
  /\ view = Unmounted(QRAssistantPage)
  /\ ops[o].pc = "delay"
  /\ ops' = [ops EXCEPT ![o].pc = "qr"]
  /\ ev' = EvStep("retryDelay", NoResp, "qr")
  /\ UNCHANGED retryCount
  /\ LateFrame

-----------------------------------------------------------------------------
(* AdminPanel: the client list *)

A_LoadMsg == <<"No se pudieron cargar los clientes">>

Row(i, s, p) == [instance_id |-> i, status |-> s, connected_phone |-> p]
RowsOf(i) == {Row(i, s, p) : s \in Statuses, p \in Phones \cup {NoPhone}}

(* what GET /admin/clients may answer, mapped as in lines 79-82 *)
ClientLists ==
  {<<>>}
  \cup {<<a>> : a \in RowsOf("c1")}
  \cup {<<a, b>> : a \in RowsOf("c1"), b \in {Row("c2", "connecting", NoPhone),
                                              Row("c2", "open", "p1")}}
  \cup {<<Row("c2", "connecting", NoPhone)>>}

ListResponses ==
  {Resp("list", 200, NoId, FALSE, NoPhone, NoStatus, NoQr, NoMsg)}
  \cup {Resp("network", 0, NoId, FALSE, NoPhone, NoStatus, NoQr, NoMsg)}
  \cup {Resp("throw", 500, NoId, FALSE, NoPhone, NoStatus, NoQr, m) :
          m \in {NoMsg, InstanceClosedMsg}}

IdleList == [pc |-> "idle", i |-> 0]

(* the updater passed to setClients by AdminPanel's socket.onmessage *)
A_PushMap(prevClients, e) ==
  [k \in DOMAIN prevClients |->
     IF prevClients[k].instance_id = e.id
     THEN [prevClients[k] EXCEPT !.status = e.status,
                                 !.connected_phone = e.phone]
     ELSE prevClients[k]]

(* the Reintentar button of the error screen, lines 370-381, and the     *)
(* Refrescar Lista button of line 427, disabled while the list loads      *)
A_fetchClients ==
  /\ view = AdminPanel
  /\ "fetchClients" \notin loadingStates
  /\ listOp.pc = "idle"
  /\ loadingStates' = loadingStates \cup {"fetchClients"}
  /\ error' = NoMsg
  /\ listOp' = [pc |-> "req", i |-> 0]
  /\ ev' = EvStep("fetchClients", NoResp, "list")
  /\ UNCHANGED <<view, clientVars, clients, mutVars, modalVars>>

ReattemptMut(kind, i) == i < retries /\ kind = "network"

(* line 63 of fetchWithRetry: the failed attempt i is followed by another *)
Reattempt(kind, i) == i < retries - 1 /\ kind = "network"

(* one pass of the loop of fetchWithRetry inside fetchClients *)
A_listResponse(r, list) ==
  /\ view = AdminPanel
  /\ listOp.pc = "req"
  /\ r \in ListResponses
  /\ list \in ClientLists
  /\ UNCHANGED <<view, clientVars, mutVars, modalVars>>
  /\ CASE r.kind = "list" ->
            /\ clients' = list
            /\ loadingStates' = loadingStates \ {"fetchClients"}
            /\ listOp' = IdleList
            /\ ev' = EvStep("listResponse", r, "none")
            /\ UNCHANGED error
       [] Reattempt(r.kind, listOp.i) ->
            /\ listOp' = [listOp EXCEPT !.pc = "delay"]
            /\ ev' = EvStep("listResponse", r, "none")
            /\ UNCHANGED <<clients, error, loadingStates>>
       [] OTHER ->
            /\ error' = Or(r.msg, A_LoadMsg)
            /\ loadingStates' = loadingStates \ {"fetchClients"}
            /\ listOp' = IdleList
            /\ ev' = EvStep("listResponse", r, "none")
            /\ UNCHANGED clients

(* the 1000 ms timeout of line 64 elapsed: continue *)
A_listDelay ==
  /\ view = AdminPanel
  /\ listOp.pc = "delay"
  /\ listOp' = [pc |-> "req", i |-> listOp.i + 1]
  /\ ev' = EvStep("listDelay", NoResp, "list")
  /\ UNCHANGED <<view, clientVars, clients, error, loadingStates, mutVars,
                 modalVars>>

A_onmessage(e) ==
  /\ view = AdminPanel
  /\ e \in PushEvents
  /\ clients' = A_PushMap(clients, e)
  /\ ev' = EvStep("onmessage", e, "none")
  /\ UNCHANGED <<view, clientVars, error, loadingStates, listOp, mutVars,
                 modalVars>>

-----------------------------------------------------------------------------
(* AdminPanel: mutations *)

A_InvalidEmailMsg == <<"Por favor, ingrese un correo electronico valido">>
A_NameMsg == <<"El nombre debe tener al menos 3 caracteres">>
A_KeyMsg == <<"La clave de API de OpenAI es requerida">>
A_AssistantMsg == <<"El ID del asistente de OpenAI es requerido">>
A_CreateMsg == <<"Error al crear el cliente. Por favor, verifica los datos e intenta de nuevo.">>
A_ToggleMsg(is_active) ==
  IF is_active THEN <<"No se pudo activar el cliente">>
  ELSE <<"No se pudo desactivar el cliente">>
A_DeleteMsg == <<"No se pudo eliminar el cliente">>
A_EmailMsg == <<"No se pudo actualizar el email">>
A_ResendMsg == <<"No se pudo reenviar el email">>

A_CreatedNotice == <<"Cliente creado exitosamente! Email enviado.">>
A_ToggledNotice(is_active) ==
  IF is_active THEN <<"Cliente activado exitosamente!">>
  ELSE <<"Cliente desactivado exitosamente!">>
A_DeletedNotice == <<"Cliente eliminado exitosamente!">>
A_EmailNotice == <<"Email actualizado exitosamente!">>
A_ResentNotice == <<"Email reenviado exitosamente">>

(* Texts are sequences of characters where the code looks inside them. *)
WordChars == {"a", "b", "c", "l", "A", "n", "1", "_"}
LabelChars == WordChars \cup {"-"}
LocalChars == WordChars \cup {"-", "."}

(* ([\w-]+\.)+[\w-]{2,4}$ on what follows the @ *)
DomainPattern(d) ==
  \E p \in DOMAIN d :
    /\ d[p] = "."
    /\ Len(d) - p \in 2..4
    /\ \A k \in (p + 1)..Len(d) : d[k] \in LabelChars
    /\ d[1] # "."
    /\ \A k \in 1..p : d[k] \in LabelChars \cup {"."}
    /\ \A k \in 1..(p - 1) : ~(d[k] = "." /\ d[k + 1] = ".")

(* the pattern /^[\w-.]+@([\w-]+\.)+[\w-]{2,4}$/ of lines 140 and 225 *)
EmailPattern(e) ==
  \E k \in DOMAIN e :
    /\ e[k] = "@"
    /\ k > 1
    /\ \A j \in 1..(k - 1) : e[j] \in LocalChars
    /\ DomainPattern(SubSeq(e, k + 1, Len(e)))

GoodEmail == <<"a", "@", "b", ".", "c", "l">>
Emails == {GoodEmail, <<"a", "@", "b">>, <<"a", "@", "b", ".", "c">>}
Names == {<<"A", "n", "a">>, <<"A", "l">>}
Secrets == {<<>>, <<"1">>}

Bound(email, name, key, assistant) ==
  [bound |-> TRUE, email |-> email, name |-> name, openai_api_key |-> key,
   openai_assistant_id |-> assistant]
GoodForm == Bound(GoodEmail, <<"A", "n", "a">>, <<"1">>, <<"1">>)
(* the form filled in well, and with one field wrong at a time *)
Forms == {GoodForm}
         \cup {[GoodForm EXCEPT !.email = e] : e \in Emails}
         \cup {[GoodForm EXCEPT !.name = n] : n \in Names}
         \cup {[GoodForm EXCEPT !.openai_api_key = k] : k \in Secrets}
         \cup {[GoodForm EXCEPT !.openai_assistant_id = k] : k \in Secrets}
Unbound == [bound |-> FALSE]

(* AdminPanel declares neither formData nor setFormData (lines 23-37):   *)
(* the identifier that validateForm and handleSubmit read is unbound.     *)
formData == Unbound

Threw == [threw |-> TRUE, ok |-> FALSE, msg |-> NoMsg]
Invalid(msg) == [threw |-> FALSE, ok |-> FALSE, msg |-> msg]
Valid == [threw |-> FALSE, ok |-> TRUE, msg |-> NoMsg]

(* validateForm: reading a field of an unbound identifier throws a       *)
(* ReferenceError                                                         *)
validateForm(fd) ==
  IF ~fd.bound THEN Threw
  ELSE IF ~EmailPattern(fd.email) THEN Invalid(A_InvalidEmailMsg)
  ELSE IF Len(fd.name) < 3 THEN Invalid(A_NameMsg)
  ELSE IF fd.openai_api_key = <<>> THEN Invalid(A_KeyMsg)
  ELSE IF fd.openai_assistant_id = <<>> THEN Invalid(A_AssistantMsg)
  ELSE Valid

MutKinds == {"create", "toggle", "delete", "updateEmail", "resendEmail"}
RowFns == {"toggle", "delete", "resendEmail"}
Modals == {"chats", "threads"}
FnOf(m) == IF m = "chats" THEN "fetchChats" ELSE "fetchThreads"
ModalFns == {FnOf(m) : m \in Modals}
DebouncedFns == RowFns \cup ModalFns

(* the rows whose buttons the operator uses *)
ClickTargets(fn) ==
  CASE fn = "toggle" -> ClientIds
    [] fn = "delete" -> {"c2"}
    [] OTHER -> {"c1"}

(* the argument list a debounce timer will call its function with *)
NoCall == [id |-> NoId, active |-> FALSE]
Call(id, active) == [id |-> id, active |-> active]

(* the template literals of the loadingStates keys *)
Key(kind, id) == kind \o "-" \o id
KeyOf(m) == IF m.kind = "create" THEN "createClient" ELSE Key(m.kind, m.id)

(* One mutation is followed from its request to its finally block; `ok`  *)
(* tells on which branch it awaits fetchClients.                          *)
IdleMut == [kind |-> "none", id |-> NoId, active |-> FALSE, pc |-> "idle",
            ok |-> FALSE]
NewMut(kind, id, active) ==
  [kind |-> kind, id |-> id, active |-> active, pc |-> "req", ok |-> FALSE]

(* the request each handler sends *)
RequestOf(kind, active) ==
  IF kind = "toggle" THEN (IF active THEN "connect" ELSE "disconnect")
  ELSE kind

(* what a mutation request, sent through fetchWithRetry, ends with *)
MutResponses ==
  {Resp("ok", 200, NoId, FALSE, NoPhone, NoStatus, NoQr, NoMsg),
   Resp("throw", 500, NoId, FALSE, NoPhone, NoStatus, NoQr, NoMsg)}

(* what the awaited fetchClients ends with *)
RefreshResponses ==
  {Resp("list", 200, NoId, FALSE, NoPhone, NoStatus, NoQr, NoMsg),
   Resp("throw", 500, NoId, FALSE, NoPhone, NoStatus, NoQr, NoMsg)}

R1 == Row("c1", "open", "p1")
R2 == Row("c2", "connecting", NoPhone)
AdminLists == {<<>>, <<R1, R2>>, <<R2>>}

(* the try blocks: which handlers await fetchClients after a success *)
RefreshOnSuccess(kind) == kind \in {"create", "toggle", "updateEmail"}

(* the catch blocks: which handlers await fetchClients after a failure *)
RefreshOnFailure(kind) == kind \in {"toggle", "delete"}

FailureMsg(m, detail) ==
  Or(detail, CASE m.kind = "create" -> A_CreateMsg
               [] m.kind = "toggle" -> A_ToggleMsg(m.active)
               [] m.kind = "delete" -> A_DeleteMsg
               [] m.kind = "updateEmail" -> A_EmailMsg
               [] OTHER -> A_ResendMsg)

NoticeOf(m) ==
  CASE m.kind = "create" -> A_CreatedNotice
    [] m.kind = "toggle" -> A_ToggledNotice(m.active)
    [] m.kind = "delete" -> A_DeletedNotice
    [] m.kind = "updateEmail" -> A_EmailNotice
    [] OTHER -> A_ResentNotice

DeleteFilterMut(prevClients, instance_id) ==
  IF Len(prevClients) = 0 THEN prevClients ELSE Tail(prevClients)

(* prevClients.filter((client) => client.instance_id !== instance_id) *)
DeleteFilter(prevClients, instance_id) ==
  SelectSeq(prevClients, LAMBDA c : c.instance_id # instance_id)

HasRow(id) == \E k \in DOMAIN clients : clients[k].instance_id = id
RowOf(id) == clients[CHOOSE k \in DOMAIN clients : clients[k].instance_id = id]

(* the early returns of lines 370 and 385 replace the panel by the error *)
(* screen or by the spinner                                               *)
PanelShown ==
  /\ ~(error # NoMsg /\ "fetchClients" \notin loadingStates)
  /\ ~("fetchClients" \in loadingStates /\ Len(clients) = 0)

(* setSuccessMessage(text); setTimeout(() => setSuccessMessage(null), 3000) *)
Surface(text) ==
  /\ successMessage' = text
  /\ dismissTimers' = [pending |-> dismissTimers.pending + 1,
                       stale |-> dismissTimers.pending]

FinallyMut(m) == loadingStates

(* the finally blocks: the key of the mutation is set to false *)
Finally(m) == loadingStates \ {KeyOf(m)}

(* a row button clicked: the debounced function clears its timeout and   *)
(* sets a new one with these arguments                                    *)
A_click(fn, id) ==
  /\ view = AdminPanel
  /\ fn \in DebouncedFns
  /\ PanelShown /\ HasRow(id)
  /\ Key(fn, id) \notin loadingStates
  /\ LET active == fn = "toggle" /\ RowOf(id).status \notin {"open", "active"}
     IN /\ debounce' = [debounce EXCEPT ![fn] = Call(id, active)]
        /\ ev' = EvStep("click", Resp(fn, 0, id, active, NoPhone, NoStatus,
                                      NoQr, NoMsg), "none")
  /\ UNCHANGED <<view, clientVars, modalVars,
                 clients, error, loadingStates, listOp, mut,
                 successMessage, dismissTimers, formError, editingClient,
                 showEditEmailForm>>

(* the 300 ms timeout of line 46 elapsed: toggleClient, deleteClient or  *)
(* resendEmail runs up to its await                                       *)
A_debounceTimer(fn, answer) ==
  /\ view = AdminPanel
  /\ fn \in RowFns
  /\ debounce[fn] # NoCall
  /\ mut.pc = "idle"
  /\ dismissTimers.pending < MaxTimers
  /\ fn = "toggle" => answer   \* toggleClient asks nothing
  /\ debounce' = [debounce EXCEPT ![fn] = NoCall]
  /\ LET c == debounce[fn]
         asked == IF fn = "toggle"
                  THEN Resp(fn, 0, c.id, c.active, NoPhone, NoStatus, NoQr,
                            NoMsg)
                  ELSE Confirm(c.id, answer)
     IN IF answer
        THEN /\ loadingStates' = loadingStates \cup {Key(fn, c.id)}
             /\ error' = NoMsg
             /\ mut' = NewMut(fn, c.id, c.active)
             /\ ev' = EvStep("debounceTimer", asked, RequestOf(fn, c.active))
        ELSE /\ ev' = EvStep("debounceTimer", asked, "none")
             /\ UNCHANGED <<loadingStates, error, mut>>
  /\ UNCHANGED <<view, clientVars, modalVars,
                 clients, listOp, successMessage,
                 dismissTimers, formError, editingClient, showEditEmailForm>>

(* handleSubmit up to its await, for the values typed into the form *)
A_handleSubmit(form) ==
  /\ view = AdminPanel
  /\ form \in Forms
  /\ PanelShown /\ "createClient" \notin loadingStates
  /\ mut.pc = "idle"
  /\ dismissTimers.pending < MaxTimers
  /\ LET v == validateForm(formData)
     IN /\ formError' = IF v.threw \/ v.ok THEN NoMsg ELSE v.msg
        /\ IF v.ok
           THEN /\ loadingStates' = loadingStates \cup {"createClient"}
                /\ mut' = NewMut("create", NoId, FALSE)
                /\ ev' = EvStep("handleSubmit", NoResp, "create")
                           @@ [form |-> form]
           ELSE /\ ev' = EvStep("handleSubmit", NoResp, "none")
                           @@ [form |-> form]
                /\ UNCHANGED <<loadingStates, mut>>
  /\ UNCHANGED <<view, clientVars, modalVars,
                 clients, error, listOp, debounce,
                 successMessage, dismissTimers, editingClient,
                 showEditEmailForm>>

(* openEditEmailForm, lines 275-279 *)
A_openEditEmailForm(id) ==
  /\ view = AdminPanel
  /\ PanelShown /\ HasRow(id)
  /\ Key("updateEmail", id) \notin loadingStates
  /\ ~(showEditEmailForm /\ editingClient = id)
  /\ editingClient' = id
  /\ showEditEmailForm' = TRUE
  /\ ev' = EvStep("openEditEmailForm", NoResp, "none")
  /\ UNCHANGED <<view, clientVars, modalVars,
                 clients, error, loadingStates, listOp, mut,
                 debounce, successMessage, dismissTimers, formError>>

(* updateClientEmail up to its await, newEmail being what was typed *)
A_updateClientEmail(newEmail) ==
  /\ view = AdminPanel
  /\ newEmail \in Emails
  /\ PanelShown /\ showEditEmailForm /\ editingClient # NoId
  /\ Key("updateEmail", editingClient) \notin loadingStates
  /\ mut.pc = "idle"
  /\ dismissTimers.pending < MaxTimers
  /\ IF ~EmailPattern(newEmail)
     THEN /\ error' = A_InvalidEmailMsg
          /\ ev' = EvStep("updateClientEmail", NoResp, "none")
          /\ UNCHANGED <<loadingStates, mut>>
     ELSE /\ loadingStates' =
               loadingStates \cup {Key("updateEmail", editingClient)}
          /\ error' = NoMsg
          /\ mut' = NewMut("updateEmail", editingClient, FALSE)
          /\ ev' = EvStep("updateClientEmail", NoResp, "updateEmail")
  /\ UNCHANGED <<view, clientVars, modalVars,
                 clients, listOp, debounce, successMessage,
                 dismissTimers, formError, editingClient, showEditEmailForm>>

(* the request of a mutation answered: the rest of its try block or its  *)
(* catch block, up to the next await or through finally                   *)
A_mutResponse(r) ==
  /\ view = AdminPanel
  /\ mut.pc = "req"
  /\ r \in MutResponses
  /\ UNCHANGED <<view, clientVars, modalVars,
                 listOp, debounce>>
  /\ IF r.kind = "ok"
     THEN /\ IF mut.kind = "updateEmail"
             THEN showEditEmailForm' = FALSE /\ editingClient' = NoId
             ELSE UNCHANGED <<showEditEmailForm, editingClient>>
          /\ UNCHANGED formError
          /\ IF RefreshOnSuccess(mut.kind)
             THEN (* await fetchClients() *)
                  /\ loadingStates' = loadingStates \cup {"fetchClients"}
                  /\ error' = NoMsg
                  /\ mut' = [mut EXCEPT !.pc = "list", !.ok = TRUE]
                  /\ ev' = EvStep("mutResponse", r, "list")
                  /\ UNCHANGED <<clients, successMessage, dismissTimers>>
             ELSE /\ clients' = IF mut.kind = "delete"
                                THEN DeleteFilter(clients, mut.id)
                                ELSE clients
                  /\ Surface(NoticeOf(mut))
                  /\ loadingStates' = Finally(mut)
                  /\ mut' = IdleMut
                  /\ ev' = EvDone("mutResponse", r, FALSE, NoObs, 0)
                             @@ [kind |-> mut.kind, id |-> mut.id]
                  /\ UNCHANGED error
     ELSE /\ UNCHANGED <<clients, successMessage, dismissTimers,
                         showEditEmailForm, editingClient>>
          /\ formError' = IF mut.kind = "create"
                          THEN FailureMsg(mut, r.msg) ELSE formError
          /\ IF RefreshOnFailure(mut.kind)
             THEN (* setError(...); await fetchClients(), which begins   *)
                  (* with setError(null)                                  *)
                  /\ loadingStates' = loadingStates \cup {"fetchClients"}
                  /\ error' = NoMsg
                  /\ mut' = [mut EXCEPT !.pc = "list", !.ok = FALSE]
                  /\ ev' = EvStep("mutResponse", r, "list")
             ELSE /\ error' = IF mut.kind = "create" THEN error
                              ELSE FailureMsg(mut, r.msg)
                  /\ loadingStates' = Finally(mut)
                  /\ mut' = IdleMut
                  /\ ev' = EvDone("mutResponse", r, TRUE, NoObs, 0)

(* the fetchClients a mutation awaits has ended: lines 77-89, then the   *)
(* rest of the mutation's try or catch block and its finally              *)
A_mutListResponse(r, list) ==
  /\ view = AdminPanel
  /\ mut.pc = "list"
  /\ r \in RefreshResponses
  /\ list \in AdminLists
  /\ IF r.kind = "list"
     THEN clients' = list /\ UNCHANGED error
     ELSE error' = Or(r.msg, A_LoadMsg) /\ UNCHANGED clients
  /\ loadingStates' = Finally(mut) \ {"fetchClients"}
  /\ IF mut.ok
     THEN Surface(NoticeOf(mut))
     ELSE UNCHANGED <<successMessage, dismissTimers>>
  /\ mut' = IdleMut
  /\ ev' = EvDone("mutListResponse", r, ~mut.ok, NoObs, 0)
  /\ UNCHANGED <<view, clientVars, modalVars,
                 listOp, debounce, formError, editingClient,
                 showEditEmailForm>>

(* a 3000 ms timeout of a success notice elapsed: setSuccessMessage(null). *)
(* The timeouts all last 3000 ms, so they elapse in the order they were    *)
(* set: the oldest pending one elapses.                                    *)
A_dismissTimer ==
  /\ view = AdminPanel
  /\ dismissTimers.pending > 0
  /\ successMessage' = NoMsg
  /\ dismissTimers' = [pending |-> dismissTimers.pending - 1, stale |-> 0]
  /\ ev' = EvStep("dismissTimer", NoResp, "none")
  /\ UNCHANGED <<view, clientVars, modalVars,
                 clients, error, loadingStates, listOp, mut,
                 debounce, formError, editingClient, showEditEmailForm>>

(* the btn-close of the notice, line 400 *)
A_closeNotice ==
  /\ view = AdminPanel
  /\ PanelShown /\ successMessage # NoMsg
  /\ successMessage' = NoMsg
  /\ dismissTimers' = [dismissTimers EXCEPT !.stale = 0]
  /\ ev' = EvStep("closeNotice", NoResp, "none")
  /\ UNCHANGED <<view, clientVars, modalVars,
                 clients, error, loadingStates, listOp, mut,
                 debounce, formError, editingClient, showEditEmailForm>>

-----------------------------------------------------------------------------
(* AdminPanel: the chats and threads modals *)

A_ChatsMsg == <<"No se pudo cargar el historial de chats">>
A_ThreadsMsg == <<"No se pudo cargar los hilos">>
ModalMsg(m) == IF m = "chats" THEN A_ChatsMsg ELSE A_ThreadsMsg

(* a fetchChats or fetchThreads call between its request and its answer; *)
(* `origin` is what called it: the debounced button, the effect of a     *)
(* modal that opened, or the interval of an open modal                    *)
IdleFetch == [m |-> "none", id |-> NoId, origin |-> "none"]
NewFetchOf(m, id, origin) == [m |-> m, id |-> id, origin |-> origin]
FreeFetchSlots == {o \in FetchSlots : fetches[o].m = "none"}

(* what a chats or threads request, sent through fetchWithRetry, ends with *)
FetchResponses ==
  {Resp("ok", 200, NoId, FALSE, NoPhone, NoStatus, NoQr, NoMsg),
   Resp("throw", 500, NoId, FALSE, NoPhone, NoStatus, NoQr, NoMsg)}

EvFetch(name, r, issued, f) ==
  EvStep(name, r, issued) @@ [modal |-> f.m, origin |-> f.origin]

(* fetchChats / fetchThreads up to the await: lines 93-96 and 108-111 *)
StartFetch(o, m, id, origin) ==
  /\ loadingStates' = loadingStates \cup {Key(FnOf(m), id)}
  /\ error' = NoMsg
  /\ fetches' = [fetches EXCEPT ![o] = NewFetchOf(m, id, origin)]

(* the 300 ms timeout of a debounced fetchChats or fetchThreads elapsed *)
A_fetchTimer(fn) ==
  /\ view = AdminPanel
  /\ fn \in ModalFns
  /\ debounce[fn] # NoCall
  /\ FreeFetchSlots # {}
  /\ LET m == CHOOSE x \in Modals : FnOf(x) = fn
         o == CHOOSE x \in FreeFetchSlots : TRUE
     IN /\ StartFetch(o, m, debounce[fn].id, "click")
        /\ ev' = EvFetch("fetchTimer", NoResp, fn,
                         NewFetchOf(m, debounce[fn].id, "click"))
  /\ debounce' = [debounce EXCEPT ![fn] = NoCall]
  /\ UNCHANGED <<view, clientVars, clients, listOp, mut, successMessage,
                 dismissTimers, formError, editingClient, showEditEmailForm,
                 showModal>>

(* the 5000 ms interval of an open modal elapsed: lines 356 and 364 *)
A_pollTick(m) ==
  /\ view = AdminPanel
  /\ m \in Modals
  /\ showModal[m] # NoId
  /\ FreeFetchSlots # {}
  /\ LET o == CHOOSE x \in FreeFetchSlots : TRUE
     IN /\ StartFetch(o, m, showModal[m], "poll")
        /\ ev' = EvFetch("pollTick", NoResp, FnOf(m),
                         NewFetchOf(m, showModal[m], "poll"))
  /\ UNCHANGED <<view, clientVars, clients, listOp, mutVars, showModal>>

(* a chats or threads request answered: lines 97-104 and 112-119.  When  *)
(* setShowChats / setShowThreads changes the state, the effect of lines  *)
(* 353-367 runs: it calls the fetch again and sets the interval.          *)
A_fetchResponse(o, r) ==
  /\ view = AdminPanel
  /\ o \in FetchSlots
  /\ fetches[o].m # "none"
  /\ r \in FetchResponses
  /\ LET f == fetches[o]
     IN IF r.kind = "ok"
        THEN /\ showModal' = [showModal EXCEPT ![f.m] = f.id]
             /\ IF showModal[f.m] # f.id
                THEN /\ StartFetch(o, f.m, f.id, "effect")
                     /\ ev' = EvFetch("fetchResponse", r, FnOf(f.m), f)
                ELSE /\ loadingStates' =
                          loadingStates \ {Key(FnOf(f.m), f.id)}
                     /\ fetches' = [fetches EXCEPT ![o] = IdleFetch]
                     /\ ev' = EvFetch("fetchResponse", r, "none", f)
                     /\ UNCHANGED error
        ELSE /\ error' = Or(r.msg, ModalMsg(f.m))
             /\ loadingStates' = loadingStates \ {Key(FnOf(f.m), f.id)}
             /\ fetches' = [fetches EXCEPT ![o] = IdleFetch]
             /\ ev' = EvFetch("fetchResponse", r, "none", f)
             /\ UNCHANGED showModal
  /\ UNCHANGED <<view, clientVars, clients, listOp, mutVars>>

(* the btn-close of a modal: setShowChats(null) / setShowThreads(null);  *)
(* the cleanup of the effect clears the interval                          *)
A_closeModal(m) ==
  /\ view = AdminPanel
  /\ m \in Modals
  /\ PanelShown /\ showModal[m] # NoId
  /\ showModal' = [showModal EXCEPT ![m] = NoId]
  /\ ev' = EvFetch("closeModal", NoResp, "none", NewFetchOf(m, NoId, "none"))
  /\ UNCHANGED <<view, clientVars, clients, error, loadingStates, listOp,
                 mutVars, fetches>>

-----------------------------------------------------------------------------
(* Specification *)

(* each view right after its mount effects: the initial load is in flight *)
Init ==
  /\ view \in Views
  /\ clientData = NoData
  /\ qrCode = NoQr
  /\ errorMessage = NoMsg
  /\ retryCount = 0
  /\ eff = [id |-> NoId, connected |-> FALSE]
  /\ effDirty = FALSE
  /\ loading = (view # AdminPanel)
  /\ refreshing = (view = QRAssistantPage)
  /\ ops = [o \in Slots |->
              IF o = 1 /\ view # AdminPanel THEN NewFetch(FALSE) ELSE IdleOp]
  /\ obs \in {NoObs} \cup
             (IF view # AdminPanel THEN {ObsStart(NoObs, 1, TRUE, 0)} ELSE {})
  /\ clients = <<>>
  /\ error = NoMsg
  /\ loadingStates = IF view = AdminPanel THEN {"fetchClients"} ELSE {}
  /\ listOp = IF view = AdminPanel THEN [pc |-> "req", i |-> 0] ELSE IdleList
  /\ ev = EvStep("mount", NoResp, IF view = AdminPanel THEN "list" ELSE "landing")
  /\ mut = IdleMut
  /\ debounce = [fn \in DebouncedFns |-> NoCall]
  /\ successMessage = NoMsg
  /\ dismissTimers = [pending |-> 0, stale |-> 0]
  /\ formError = NoMsg
  /\ editingClient = NoId
  /\ showEditEmailForm = FALSE
  /\ showModal = [m \in Modals |-> NoId]
  /\ fetches = [o \in FetchSlots |-> IdleFetch]

Next ==
  \/ \E t \in BOOLEAN : CL_handleRefresh(t)
  \/ \E t \in BOOLEAN : CL_useEffect(t)
  \/ \E o \in Slots, r \in LandingResponses : CL_landingResponse(o, r)
  \/ \E o \in Slots, c \in LandingClients, r \in StatusResponses :
       CL_statusResponse(o, c, r)
  \/ \E o \in Slots, r \in QrResponses : CL_qrResponse(o, r)
  \/ \E o \in Slots : CL_retryDelay(o)
  \/ \E e \in PushEvents : CL_onmessage(e)
  \/ \E t \in BOOLEAN : QRA_handleRefresh(t)
  \/ \E t \in BOOLEAN : QRA_useEffect(t)
  \/ \E t \in BOOLEAN : QRA_statusTimer(t)
  \/ \E t \in BOOLEAN : QRA_qrTimer(t)
  \/ \E o \in Slots, r \in LandingResponses : QRA_landingResponse(o, r)
  \/ \E o \in Slots, c \in LandingClients, r \in StatusResponses :
       QRA_statusResponse(o, c, r)
  \/ \E o \in Slots, r \in QrResponses : QRA_qrResponse(o, r)
  \/ \E o \in Slots : QRA_retryDelay(o)
  \/ A_fetchClients
  \/ \E r \in ListResponses, list \in ClientLists : A_listResponse(r, list)
  \/ A_listDelay
  \/ \E e \in PushEvents : A_onmessage(e)

Spec == Init /\ [][Next]_vars

(* the client views with their disconnect buttons; no operation is      *)
(* followed by `obs`                                                      *)
DisconnectInit == Init /\ view # AdminPanel /\ obs = NoObs

DisconnectNext ==
  \/ CL_handleRefresh(FALSE)
  \/ CL_useEffect(FALSE)
  \/ \E o \in Slots, r \in LandingResponses : CL_landingResponse(o, r)
  \/ \E o \in Slots, c \in LandingClients, r \in StatusResponses :
       CL_statusResponse(o, c, r)
  \/ \E o \in Slots, r \in QrResponses : CL_qrResponse(o, r)
  \/ \E o \in Slots : CL_retryDelay(o)
  \/ \E e \in PushEvents : CL_onmessage(e)
  \/ \E a \in BOOLEAN : CL_handleDisconnectWhatsApp(a)
  \/ \E o \in Slots, r \in ToggleResponses : CL_disconnectResponse(o, r)
  \/ QRA_handleRefresh(FALSE)
  \/ QRA_useEffect(FALSE)
  \/ QRA_statusTimer(FALSE)
  \/ QRA_qrTimer(FALSE)
  \/ \E o \in Slots, r \in LandingResponses : QRA_landingResponse(o, r)
  \/ \E o \in Slots, c \in LandingClients, r \in StatusResponses :
       QRA_statusResponse(o, c, r)
  \/ \E o \in Slots, r \in QrResponses : QRA_qrResponse(o, r)
  \/ \E o \in Slots : QRA_retryDelay(o)
  \/ \E a \in BOOLEAN : QRA_handleDisconnect(a)
  \/ \E o \in Slots, r \in ToggleResponses : QRA_disconnectResponse(o, r)

DisconnectSpec == DisconnectInit /\ [][DisconnectNext]_vars

(* The client views left alone after mount: no user action, no push      *)
(* event, no interval tick, and a backend whose requests all succeed and  *)
(* answer every time what they answered before.                           *)
OkLanding == {r \in LandingResponses : r.kind = "landing"}
OkStatus == {r \in StatusResponses : r.kind = "status"}
OkQr == {r \in QrResponses : r.kind = "qr"}

(* the landing and status answers are the ones the view already holds *)
SameAnswer(client, r) ==
  clientData.set => NewClientData(client, r.status) = clientData

QuiesceInit == Init /\ view # AdminPanel

QuiesceNext ==
  \/ \E t \in BOOLEAN : CL_useEffect(t)
  \/ \E o \in Slots, r \in OkLanding : CL_landingResponse(o, r)
  \/ \E o \in Slots, c \in LandingClients, r \in OkStatus :
       SameAnswer(c, r) /\ CL_statusResponse(o, c, r)
  \/ \E o \in Slots, r \in OkQr : CL_qrResponse(o, r)
  \/ \E t \in BOOLEAN : QRA_useEffect(t)
  \/ \E o \in Slots, r \in OkLanding : QRA_landingResponse(o, r)
  \/ \E o \in Slots, c \in LandingClients, r \in OkStatus :
       SameAnswer(c, r) /\ QRA_statusResponse(o, c, r)
  \/ \E o \in Slots, r \in OkQr : QRA_qrResponse(o, r)

(* every request is answered and every pending effect runs *)
QuiesceSpec ==
  QuiesceInit /\ [][QuiesceNext]_vars /\ WF_vars(QuiesceNext)

(* the client views, mounted and then unmounted at any moment *)
UnmountNext ==
  \/ CL_handleRefresh(FALSE)
  \/ CL_useEffect(FALSE)
  \/ \E o \in Slots, r \in LandingResponses : CL_landingResponse(o, r)
  \/ \E o \in Slots, c \in LandingClients, r \in StatusResponses :
       CL_statusResponse(o, c, r)
  \/ \E o \in Slots, r \in QrResponses : CL_qrResponse(o, r)
  \/ \E o \in Slots : CL_retryDelay(o)
  \/ \E e \in PushEvents : CL_onmessage(e)
  \/ CL_unmount
  \/ \E o \in Slots, r \in LandingResponses : CL_lateLandingResponse(o, r)
  \/ \E o \in Slots, r \in StatusResponses : CL_lateStatusResponse(o, r)
  \/ \E o \in Slots, r \in QrResponses : CL_lateQrResponse(o, r)
  \/ \E o \in Slots : CL_lateRetryDelay(o)
  \/ QRA_handleRefresh(FALSE)
  \/ QRA_useEffect(FALSE)
  \/ QRA_statusTimer(FALSE)
  \/ QRA_qrTimer(FALSE)
  \/ \E o \in Slots, r \in LandingResponses : QRA_landingResponse(o, r)
  \/ \E o \in Slots, c \in LandingClients, r \in StatusResponses :
       QRA_statusResponse(o, c, r)
  \/ \E o \in Slots, r \in QrResponses : QRA_qrResponse(o, r)
  \/ \E o \in Slots : QRA_retryDelay(o)
  \/ QRA_unmount
  \/ \E o \in Slots, r \in LandingResponses : QRA_lateLandingResponse(o, r)
  \/ \E o \in Slots, r \in StatusResponses : QRA_lateStatusResponse(o, r)
  \/ \E o \in Slots, r \in QrResponses : QRA_lateQrResponse(o, r)
  \/ \E o \in Slots : QRA_lateRetryDelay(o)

UnmountSpec == DisconnectInit /\ [][UnmountNext]_vars

(* the admin panel alone, with its mutations *)
AdminInit == Init /\ view = AdminPanel

AdminNext ==
  \/ A_fetchClients
  \/ \E r \in RefreshResponses, list \in AdminLists : A_listResponse(r, list)
  \/ \E fn \in RowFns : \E id \in ClickTargets(fn) : A_click(fn, id)
  \/ \E fn \in RowFns, a \in BOOLEAN : A_debounceTimer(fn, a)
  \/ \E form \in Forms : A_handleSubmit(form)
  \/ \E id \in ClickTargets("updateEmail") : A_openEditEmailForm(id)
  \/ \E e \in Emails : A_updateClientEmail(e)
  \/ \E r \in MutResponses : A_mutResponse(r)
  \/ \E r \in RefreshResponses, list \in AdminLists : A_mutListResponse(r, list)
  \/ A_dismissTimer
  \/ A_closeNotice

AdminSpec == AdminInit /\ [][AdminNext]_vars

(* the admin panel alone, with its chats and threads modals *)
ModalNext ==
  \/ A_fetchClients
  \/ \E r \in RefreshResponses, list \in AdminLists : A_listResponse(r, list)
  \/ \E fn \in ModalFns : \E id \in ClickTargets(fn) : A_click(fn, id)
  \/ \E fn \in ModalFns : A_fetchTimer(fn)
  \/ \E m \in Modals : A_pollTick(m)
  \/ \E o \in FetchSlots, r \in FetchResponses : A_fetchResponse(o, r)
  \/ \E m \in Modals : A_closeModal(m)

ModalSpec == AdminInit /\ [][ModalNext]_vars

-----------------------------------------------------------------------------
(* Properties *)

ClientView == view \in {ClientLanding, QRAssistantPage}
IsInstanceNotReady(msg) ==
  Includes(msg, "Instance") /\ Includes(msg, "does not exist")
PushApplied(e) == e.kind = "push" /\ e.status # NoStatus

(* C1: in every reachable state of a client view, status = 'open' implies *)
(* qrCode = null.                                                          *)
C1_QrClearedWhenOpen ==
  (ClientView /\ clientData.status = "open") => qrCode = NoQr

(* C2: a push event whose clientId differs from the id of the viewed      *)
(* client (none yet included) leaves clientData, qrCode and errorMessage  *)
(* unchanged; in the admin list it changes no row of another client and   *)
(* adds or removes no row.                                                 *)
C2_ForeignPushIgnored ==
  [][ev'.name = "onmessage" =>
       /\ (ClientView /\ ev'.resp.id # clientData.id) =>
            UNCHANGED <<clientData, qrCode, errorMessage>>
       /\ view = AdminPanel =>
            /\ Len(clients') = Len(clients)
            /\ \A k \in DOMAIN clients :
                 /\ clients'[k].instance_id = clients[k].instance_id
                 /\ clients[k].instance_id # ev'.resp.id =>
                      clients'[k] = clients[k]]_vars

C2_Witness ==
  \/ /\ view = ClientLanding /\ ev.name = "onmessage"
     /\ eff.id = "c1" /\ clientData.id = "c1" /\ ev.resp.id = "c2"
     /\ qrCode # NoQr
  \/ /\ view = AdminPanel /\ ev.name = "onmessage"
     /\ Len(clients) = 2 /\ ev.resp.id = "c2" /\ ev.resp.status = "open"
     /\ clients[1].status = "connecting"

(* C3 as stated: a followed operation never issues more QR requests than  *)
(* the bound of 3.                                                         *)
C3_AtMostThreeQrRequests ==
  /\ obs.o # 0 => obs.qrReqs <= maxRetries
  /\ (ev.done /\ ev.observed) => ev.qrReqs <= maxRetries

(* C3 amended: an InstanceNotReady failure is retried while the counter   *)
(* is below 3 and not once it has reached 3, when the message is          *)
(* surfaced; an operation whose counter is not moved back meanwhile       *)
(* issues at most 1 + 3 QR requests.                                      *)
C3_RetryBound ==
  /\ retryCount \in 0..maxRetries
  /\ obs.o # 0 => obs.qrReqs <= maxRetries + 1
  /\ (ev.done /\ ev.observed) => ev.qrReqs <= maxRetries + 1
  /\ (ev.name = "qrResponse" /\ ev.resp.kind = "throw"
        /\ IsInstanceNotReady(ev.resp.msg)) =>
       IF ev.done
       THEN /\ retryCount = maxRetries
            /\ errorMessage = ev.resp.msg
            /\ ev.issued = "none"
       ELSE /\ retryCount \in 1..maxRetries
            /\ \E o \in Slots : ops[o].pc = "delay"

C3_Witness ==
  /\ ev.name = "qrResponse" /\ ev.resp.kind = "throw"
  /\ IsInstanceNotReady(ev.resp.msg)
  /\ ev.done /\ ev.observed /\ ev.qrReqs = maxRetries + 1
  /\ errorMessage # NoMsg

(* C4: a QR attempt that fails with another kind than InstanceNotReady    *)
(* (no response, an HTTP error with another detail, a response without a  *)
(* QR payload) ends the operation with the error surfaced and no retry:   *)
(* when the counter is at 0 it has issued exactly one QR request.         *)
C4_NoRetryOnOtherErrors ==
  (/\ ev.name = "qrResponse"
   /\ \/ ev.resp.kind \in {"throw", "body"}
      \/ ev.resp.kind = "open" /\ view = QRAssistantPage
   /\ ~IsInstanceNotReady(ev.resp.msg)) =>
     /\ ev.done /\ ev.failed /\ ev.issued = "none"
     /\ errorMessage # NoMsg
     /\ (ev.observed /\ retryCount = 0) => ev.qrReqs = 1

C4_Witness ==
  /\ ev.name = "qrResponse" /\ ev.resp.kind = "throw"
  /\ ev.resp.msg = InstanceClosedMsg
  /\ ev.done /\ ev.observed /\ ev.qrReqs = 1 /\ retryCount = 0
  /\ errorMessage = InstanceClosedMsg

(* C5: when the QR fetch returns the result {error: 'Instance <id> does   *)
(* not exist'} and the counter is below 3, the view retries by itself:    *)
(* the operation is not over, a delayed attempt is pending.               *)
C5_NotReadyResultRetried ==
  (/\ ev.name = "qrResponse" /\ ev.resp.kind = "body"
   /\ IsInstanceNotReady(ev.resp.msg)
   /\ retryCount < maxRetries) =>
     /\ ~ev.done
     /\ \E o \in Slots : ops[o].pc = "delay"

(* C6 as stated: an operation that ends in a failure has not changed      *)
(* clientData.                                                             *)
C6_NoPartialState ==
  (ev.done /\ ev.failed /\ ev.observed) => ~ev.applied

(* C6 amended: handling a failed landing or status request leaves         *)
(* clientData as it was, and so does handling a failed QR request: what   *)
(* the status response applied before the QR request stays applied.       *)
C6_FailureKeepsState ==
  [][(ClientView /\ ev'.name \in {"landingResponse", "statusResponse",
                                 "qrResponse"}
        /\ (ev'.failed \/ ev'.resp.kind \in {"fail", "throw", "body"}))
       => clientData' = clientData]_vars

C6_Witness ==
  /\ ClientView
  /\ ev.name \in {"landingResponse", "statusResponse"}
  /\ ev.done /\ ev.failed /\ clientData.set /\ errorMessage # NoMsg

(* C7: within fetchState the status request follows the landing response  *)
(* and a QR request is issued exactly when the status response is not     *)
(* 'open'.                                                                 *)
C7_RequestOrder ==
  /\ ev.issued = "status" =>
       ev.name = "landingResponse" /\ ev.resp.kind = "landing"
  /\ (ev.name = "statusResponse" /\ ev.resp.kind = "status") =>
       (ev.issued = "qr" <=> ev.resp.status # "open")

NotFoundMsg == IF view = ClientLanding THEN CL_NotFoundMsg ELSE QRA_NotFoundMsg
UnauthorizedMsg == IF view = ClientLanding THEN CL_UnauthorizedMsg ELSE QRA_AuthMsg
ConnectivityMsg == IF view = ClientLanding THEN CL_ConnectMsg ELSE QRA_StatusMsg

(* C8: a failed landing or status request surfaces NotFound on 404,       *)
(* Unauthorized on 401 and on 403, the connectivity message otherwise,    *)
(* in both client views.                                                   *)
C8_MessageByHttpStatus ==
  (ClientView /\ ev.name \in {"landingResponse", "statusResponse"}
     /\ ev.resp.kind = "fail") =>
    errorMessage = (IF ev.resp.http = 404 THEN NotFoundMsg
                    ELSE IF ev.resp.http \in {401, 403} THEN UnauthorizedMsg
                    ELSE ConnectivityMsg)

(* C9: a push event applied in the client view sets status to the         *)
(* event's, connected to status = 'open', connectedPhone to the event's   *)
(* phone or else the previous one, and qrCode to the event's payload with *)
(* errorMessage cleared, or else leaves both.                              *)
C9_PushApplied ==
  [][(view = ClientLanding /\ ev'.name = "onmessage" /\ PushApplied(ev'.resp))
       => LET e == ev'.resp
          IN /\ e.id = clientData.id
             /\ clientData'.id = clientData.id
             /\ clientData'.status = e.status
             /\ clientData'.connected = (e.status = "open")
             /\ clientData'.phone =
                  (IF e.phone # NoPhone THEN e.phone ELSE clientData.phone)
             /\ IF e.payload # NoQr
                THEN qrCode' = e.payload /\ errorMessage' = NoMsg
                ELSE UNCHANGED <<qrCode, errorMessage>>]_vars

C9_Witness ==
  /\ view = ClientLanding /\ ev.name = "onmessage" /\ PushApplied(ev.resp)
  /\ ev.resp.phone = NoPhone /\ clientData.phone = "p1"
  /\ ev.resp.payload = NoQr /\ errorMessage # NoMsg
  /\ clientData.status = "open"

(* C10: the locally held connected always equals status = 'open'.         *)
C10_ConnectedDerived ==
  (ClientView /\ clientData.set) =>
    (clientData.connected <=> clientData.status = "open")

MutationRequests ==
  {"create", "connect", "disconnect", "delete", "updateEmail", "resendEmail"}
MutationEnded == ev.name \in {"mutResponse", "mutListResponse"} /\ ev.done

(* C11: a toggle request with action disconnect is only issued by a step  *)
(* in which the user was asked to confirm and accepted.                    *)
C11_DisconnectConfirmed ==
  ev.issued = "disconnect" => (ev.resp.kind = "confirm" /\ ev.resp.connected)

(* C13: submitting the create form sends POST /admin/clients exactly when *)
(* the email matches the pattern, the name has 3 characters or more and   *)
(* the API key and the assistant id are not empty; otherwise a form error *)
(* is set and nothing is sent.                                             *)
C13_ValidatedCreate ==
  ev.name = "handleSubmit" =>
    IF validateForm(ev.form).ok
    THEN ev.issued = "create"
    ELSE ev.issued = "none" /\ formError # NoMsg

(* C14: the backend call of every admin mutation is dispatched by its     *)
(* debounce timer, 300 ms after the last trigger.                          *)
C14_MutationsDebounced ==
  ev.issued \in MutationRequests => ev.name = "debounceTimer"

RemovedRow(old, new, x) ==
  IF \E k \in DOMAIN old : old[k].instance_id = x
  THEN /\ \E k \in DOMAIN old :
            /\ old[k].instance_id = x
            /\ new = SubSeq(old, 1, k - 1) \o SubSeq(old, k + 1, Len(old))
       /\ \A k \in DOMAIN new : new[k].instance_id # x
  ELSE new = old

C17_FailureRefreshes ==
  (ev.name = "mutResponse" /\ ev.resp.kind = "throw") => ev.issued = "list"

(* C18: when a mutation whose backend call failed has completed, its      *)
(* follow-up refresh included, the error message is set.                   *)
C18_ErrorPersists ==
  (MutationEnded /\ ev.failed) => error # NoMsg

(* C19: a dismissal timer that clears a success notice is the timer that  *)
(* was started when that notice was surfaced.                              *)
C19_OwnTimerDismisses ==
  [][(ev'.name = "dismissTimer" /\ successMessage # NoMsg)
       => dismissTimers.stale = 0]_vars

(* C20: the loading key of a mutation is true from its dispatch to its    *)
(* completion, the list refresh included, and false once it has           *)
(* completed, whether the backend call succeeded or failed.                *)
C20_LoadingWhileInFlight ==
  [][/\ mut'.pc # "idle" => KeyOf(mut') \in loadingStates'
     /\ (mut.pc # "idle" /\ mut'.pc = "idle") =>
          KeyOf(mut) \notin loadingStates'
     /\ mut'.pc = "idle" => loadingStates' \subseteq {"fetchClients"}]_vars

C20_Witness ==
  /\ ev.name = "mutListResponse" /\ ev.done /\ ev.failed
  /\ ev.resp.kind = "throw"
  /\ loadingStates = {} /\ mut.pc = "idle"

(* C16: a modal that is closed opens only by a request the operator       *)
(* started with the row button, and a request started by the polling      *)
(* effect leaves an open modal behind: once closed, the modal stays       *)
(* closed whatever poll request was in flight.                             *)
C16_ClosedStaysClosed ==
  [][\A m \in Modals :
       (showModal[m] = NoId /\ showModal'[m] # NoId) =>
         (ev'.name = "fetchResponse" /\ ev'.origin = "click")]_vars

-----------------------------------------------------------------------------
(* What the client views render *)

(* ClientLanding: past the spinner of line 245, the refresh button of     *)
(* line 308 is always rendered (and the one of the error card, line 280,  *)
(* when there is a message), disabled while refreshing                     *)
CL_RefreshShown == ~loading /\ ~refreshing

(* the disconnect button of lines 374-389 *)
CL_DisconnectShown ==
  /\ ~loading /\ ~refreshing
  /\ clientData.connected \/ clientData.status = "open"
  /\ clientData.id # NoId

(* QRAssistantPage: past the spinner of line 363, the error screen of     *)
(* line 377 has the retry button; the main screen has the refresh button  *)
(* only in the branch of a client that is not connected (lines 468-485)   *)
QRA_RefreshShown ==
  /\ ~loading /\ ~refreshing
  /\ \/ errorMessage # NoMsg /\ ~clientData.set
     \/ ~clientData.connected

(* the disconnect button of lines 437-465 *)
QRA_DisconnectShown ==
  /\ ~loading /\ ~refreshing
  /\ ~(errorMessage # NoMsg /\ ~clientData.set)
  /\ clientData.connected

RefreshShown ==
  IF view = ClientLanding THEN CL_RefreshShown ELSE QRA_RefreshShown
DisconnectShown ==
  IF view = ClientLanding THEN CL_DisconnectShown ELSE QRA_DisconnectShown

(* C21: when a failed operation of a client view has completed, the       *)
(* control that starts it again is shown and enabled: the refresh button  *)
(* after a failed fetch, the disconnect or the refresh button after a     *)
(* failed disconnect.                                                      *)
C21_RetryAvailable ==
  (ClientView /\ ev.done /\ ev.failed) =>
    IF ev.name = "disconnectResponse"
    THEN DisconnectShown \/ RefreshShown
    ELSE RefreshShown

(* C22: when a fetchState that ended with a QR payload completes, it is   *)
(* the operation that resolved last, and the view holds the state derived *)
(* from it: its QR payload together with the status it read, which is     *)
(* not 'open' since it went on to request the QR.                          *)
C22_LastResolvedWins ==
  (view = ClientLanding /\ ev.name = "qrResponse" /\ ev.done
     /\ ev.resp.kind = "qr")
    => (qrCode = ev.resp.payload /\ clientData.status # "open")

(* C24: the admin view applies a push event to the row of the event's     *)
(* client as the client view applies it to its clientData: the row ends   *)
(* with the status and the connected phone that PushMerge gives for the   *)
(* row's previous status and phone; an event without phone keeps the      *)
(* previous phone.                                                         *)
C24_PushConsumedAlike ==
  [][(view = AdminPanel /\ ev'.name = "onmessage") =>
       /\ Len(clients') = Len(clients)
       /\ \A k \in DOMAIN clients :
            clients[k].instance_id = ev'.resp.id =>
              LET prev == [NoData EXCEPT !.status = clients[k].status,
                                         !.phone = clients[k].connected_phone]
                  new == PushMerge(prev, ev'.resp)
              IN /\ clients'[k].status = new.status
                 /\ clients'[k].connected_phone = new.phone]_vars

(* C25: a trigger for one client never cancels a pending action on        *)
(* another: the call a debounce timer is waiting to make is only replaced *)
(* by a call for the same client, or removed when the timer fires.         *)
C25_OtherClientKept ==
  [][\A fn \in RowFns :
       (debounce[fn] # NoCall /\ debounce'[fn] # NoCall)
         => debounce'[fn].id = debounce[fn].id]_vars

(* C27: a list response handled right after deleteClient(X) succeeded     *)
(* belongs to a refresh that was in flight when the delete completed; it  *)
(* does not bring the row of X back.                                       *)
C27_DeletedStaysDeleted ==
  [][(/\ ev.name = "mutResponse" /\ ev.done /\ ~ev.failed
      /\ ev'.name = "listResponse")
       => (ev.kind = "delete" =>
             \A k \in DOMAIN clients' : clients'[k].instance_id # ev.id)]_vars

(* C28: one call of fetchWithRetry makes at most `retries` requests.  A   *)
(* successful response ends the call with that response; a network error  *)
(* on an attempt that is not the last is followed, after the delay, by    *)
(* one more request; any other failure ends the call with that error and  *)
(* no further request.                                                     *)
C28_AtMostThreeAttempts ==
  [][/\ listOp'.i < retries
     /\ (view = AdminPanel /\ ev'.name = "listResponse") =>
          IF ev'.resp.kind = "list"
          THEN listOp' = IdleList /\ error' = error
          ELSE IF ev'.resp.kind = "network" /\ listOp.i + 1 < retries
          THEN listOp' = [pc |-> "delay", i |-> listOp.i]
               /\ ev'.issued = "none"
          ELSE /\ listOp' = IdleList /\ ev'.issued = "none"
               /\ error' = Or(ev'.resp.msg, A_LoadMsg)
     /\ (view = AdminPanel /\ ev'.name = "listDelay") =>
          /\ listOp.pc = "delay"
          /\ listOp' = [pc |-> "req", i |-> listOp.i + 1]
          /\ ev'.issued = "list"]_vars

C28_Witness ==
  /\ view = AdminPanel /\ ev.name = "listDelay"
  /\ listOp.pc = "req" /\ listOp.i = retries - 1

(* C29: every QR request in flight carries a resolved client id.           *)
C29_QrRequestHasId ==
  \A o \in Slots :
    (ClientView /\ ops[o].pc = "qr") => ops[o].inst # NoId

(* C30: the retry counter is 0 in the step that begins a fetchState or a  *)
(* fetchQr operation (effect, poll tick, QR timer tick, manual refresh),  *)
(* and it never exceeds maxRetries.                                        *)
C30_FullRetryBudget ==
  /\ retryCount <= maxRetries
  /\ (ClientView
        /\ ev.name \in {"useEffect", "statusTimer", "qrTimer", "handleRefresh"})
       => retryCount = 0

(* no request in flight, no spinner, no effect waiting to run *)
Quiet == (\A o \in Slots : ops[o].pc = "idle") /\ ~loading /\ ~effDirty

(* C26: left alone after mount with a backend that keeps answering the    *)
(* same successful responses, each client view eventually stays quiet:    *)
(* no fetch in flight, loading false, no further fetchState started.       *)
C26_Quiescence == <>[](ClientView => Quiet)

(* C23: once a client view is unmounted, none of its timers fires (no    *)
(* poll tick, no QR timer tick, no delayed retry), no push event is       *)
(* consumed, and no late result changes its state.                         *)
C23_UnmountCancels ==
  [][(view \in {Unmounted(ClientLanding), Unmounted(QRAssistantPage)}) =>
       /\ ev'.name \notin {"statusTimer", "qrTimer", "retryDelay",
                           "onmessage"}
       /\ UNCHANGED <<clientData, qrCode, loading, errorMessage,
                      refreshing>>]_vars

====
